---- MODULE Spec2Model ----
(***************************************************************************)
(* Model of src/src/main_pipeline.py: one run of the deal pipeline         *)
(*   fetch_deals -> ai_enrich -> generate_site -> generate_rss.            *)
(*                                                                         *)
(* Python strings are sequences of one-character strings, so that the      *)
(* text functions (lower, split, isdigit, quote, re.search) are computed   *)
(* character by character as the code computes them.  Python dicts are     *)
(* functions from key names to values; a missing key is a missing element  *)
(* of the DOMAIN.                                                          *)
(***************************************************************************)
EXTENDS Integers, Sequences, FiniteSets, TLC

\* ------------------------------------------------------------------ values

\* Python's None.  A one-element sequence whose element is not a character,
\* so it differs from every string, the empty string included.
None == <<"None">>

\* Truthiness of an optional string: None and "" are falsy.
Truthy(v) == v # None /\ v # <<>>

\* The printable ASCII characters in code order; Printable[i] has code i + 31.
\* Code 96, the grave accent, cannot be written in a TLA+ string: its place
\* is held by a name that is no character, and no input of the model uses it.
Printable ==
  (*  !\"#$%&'()*+,-./0123456789:;<=>?@ABCDEFGHIJKLMNOPQRSTUVWXYZ[\\]^_ *) <<" ","!","\"","#","$","%","&","'","(",")","*","+",",","-",".","/","0","1","2","3","4","5","6","7","8","9",":",";","<","=",">","?","@","A","B","C","D","E","F","G","H","I","J","K","L","M","N","O","P","Q","R","S","T","U","V","W","X","Y","Z","[","\\","]","^","_">>
    \o <<"(grave accent)">> \o (* abcdefghijklmnopqrstuvwxyz{|}~ *) <<"a","b","c","d","e","f","g","h","i","j","k","l","m","n","o","p","q","r","s","t","u","v","w","x","y","z","{","|","}","~">>

UpperChars == (* ABCDEFGHIJKLMNOPQRSTUVWXYZ *) <<"A","B","C","D","E","F","G","H","I","J","K","L","M","N","O","P","Q","R","S","T","U","V","W","X","Y","Z">>
LowerChars == (* abcdefghijklmnopqrstuvwxyz *) <<"a","b","c","d","e","f","g","h","i","j","k","l","m","n","o","p","q","r","s","t","u","v","w","x","y","z">>
DigitChars == (* 0123456789 *) <<"0","1","2","3","4","5","6","7","8","9">>
HexDigits  == (* 0123456789ABCDEF *) <<"0","1","2","3","4","5","6","7","8","9","A","B","C","D","E","F">>

Range(s) == { s[i] : i \in DOMAIN s }

\* ord(c) for the characters of the model's alphabet.
Ord(c) ==
  IF c = "\n" THEN 10
  ELSE IF c = "\t" THEN 9
  ELSE 31 + (CHOOSE i \in DOMAIN Printable : Printable[i] = c)

\* str.lower() on one character, then on a string.
LowerChar(c) ==
  IF c \in Range(UpperChars)
  THEN LowerChars[CHOOSE i \in DOMAIN UpperChars : UpperChars[i] = c]
  ELSE c

Lower(s) == [i \in DOMAIN s |-> LowerChar(s[i])]

\* str.isdigit(): non-empty and every character a digit.
IsDigit(w) == w # <<>> /\ \A i \in DOMAIN w : w[i] \in Range(DigitChars)

IsSpace(c) == c \in {" ", "\t", "\n"}

\* str.split() with no argument: maximal runs of non-whitespace characters.
RECURSIVE SplitFrom(_, _, _)
SplitFrom(s, i, cur) ==
  IF i > Len(s) THEN (IF cur = <<>> THEN <<>> ELSE <<cur>>)
  ELSE IF IsSpace(s[i])
       THEN (IF cur = <<>> THEN <<>> ELSE <<cur>>) \o SplitFrom(s, i + 1, <<>>)
       ELSE SplitFrom(s, i + 1, Append(cur, s[i]))

Split(s) == SplitFrom(s, 1, <<>>)

\* " ".join(words)
RECURSIVE JoinSpace(_)
JoinSpace(ws) ==
  IF ws = <<>> THEN <<>>
  ELSE IF Len(ws) = 1 THEN ws[1]
  ELSE ws[1] \o <<" ">> \o JoinSpace(Tail(ws))

\* s[:n]
Prefix(s, n) == SubSeq(s, 1, IF Len(s) < n THEN Len(s) ELSE n)

\* s[-n:]
Suffix(s, n) == SubSeq(s, (IF Len(s) < n THEN 1 ELSE Len(s) - n + 1), Len(s))

\* The literal lit occurs in s at position i.
LitAt(s, i, lit) ==
  /\ i >= 1
  /\ i + Len(lit) - 1 <= Len(s)
  /\ \A k \in 1..Len(lit) : s[i + k - 1] = lit[k]

\* urllib.parse.quote(s) with the default safe="/": letters, digits and
\* _ . - ~ / are kept, every other character becomes %XX (upper-case hex).
QuoteSafe ==
  Range(UpperChars) \cup Range(LowerChars) \cup Range(DigitChars)
    \cup {"_", ".", "-", "~", "/"}

\* A quote that leaves every character as it is.
QuoteCharPlain(c) == <<c>>

\* One character of urllib.parse.quote.

QuoteChar(c) ==
  IF c \in QuoteSafe THEN <<c>>
  ELSE <<"%", HexDigits[(Ord(c) \div 16) + 1], HexDigits[(Ord(c) % 16) + 1]>>

RECURSIVE Quote(_)
Quote(s) == IF s = <<>> THEN <<>> ELSE QuoteChar(Head(s)) \o Quote(Tail(s))

\* ------------------------------------------------------------ configuration

AMAZON_TAG == (* circuitbrea0c-20 *) <<"c","i","r","c","u","i","t","b","r","e","a","0","c","-","2","0">>

FALLBACK_IMGS ==
  [ Tech    |-> (* https://images.unsplash.com/photo-1519389950473-47ba0277781c?w=800&q=80 *) <<"h","t","t","p","s",":","/","/","i","m","a","g","e","s",".","u","n","s","p","l","a","s","h",".","c","o","m","/","p","h","o","t","o","-","1","5","1","9","3","8","9","9","5","0","4","7","3","-","4","7","b","a","0","2","7","7","7","8","1","c","?","w","=","8","0","0","&","q","=","8","0">>,
    Home    |-> (* https://images.unsplash.com/photo-1556909114-f6e7ad7d3136?w=800&q=80 *) <<"h","t","t","p","s",":","/","/","i","m","a","g","e","s",".","u","n","s","p","l","a","s","h",".","c","o","m","/","p","h","o","t","o","-","1","5","5","6","9","0","9","1","1","4","-","f","6","e","7","a","d","7","d","3","1","3","6","?","w","=","8","0","0","&","q","=","8","0">>,
    Audio   |-> (* https://images.unsplash.com/photo-1505740420928-5e560c06d30e?w=800&q=80 *) <<"h","t","t","p","s",":","/","/","i","m","a","g","e","s",".","u","n","s","p","l","a","s","h",".","c","o","m","/","p","h","o","t","o","-","1","5","0","5","7","4","0","4","2","0","9","2","8","-","5","e","5","6","0","c","0","6","d","3","0","e","?","w","=","8","0","0","&","q","=","8","0">>,
    Default |-> (* https://images.unsplash.com/photo-1526738549149-8e07eca6c147?w=800&q=80 *) <<"h","t","t","p","s",":","/","/","i","m","a","g","e","s",".","u","n","s","p","l","a","s","h",".","c","o","m","/","p","h","o","t","o","-","1","5","2","6","7","3","8","5","4","9","1","4","9","-","8","e","0","7","e","c","a","6","c","1","4","7","?","w","=","8","0","0","&","q","=","8","0">> ]

\* ------------------------------------------------------------------ helpers

\* [A-Z0-9]{10} at position j of text.
AsinAt(text, j) ==
  /\ j >= 1
  /\ j + 9 <= Len(text)
  /\ \A k \in j..(j + 9) : text[k] \in (Range(UpperChars) \cup Range(DigitChars))

\* re.search(lit + '([A-Z0-9]{10})', text): the group of the leftmost match,
\* or None.
SearchLitAsin(text, lit) ==
  LET hits == { i \in 1..Len(text) : LitAt(text, i, lit) /\ AsinAt(text, i + Len(lit)) }
  IN  IF hits = {} THEN None
      ELSE LET i == CHOOSE h \in hits : \A g \in hits : h <= g
           IN  SubSeq(text, i + Len(lit), i + Len(lit) + 9)

\* re.search(r'amazon\.com.*/([A-Z0-9]{10})', text): the leftmost
\* "amazon.com" from which a match exists; the greedy .* (any characters
\* but a newline) takes the last "/" followed by ten [A-Z0-9].
SearchGeneric(text) ==
  LET dom == (* amazon.com *) <<"a","m","a","z","o","n",".","c","o","m">>
      Ends(i) == { j \in (i + Len(dom))..Len(text) :
                     /\ text[j] = "/"
                     /\ AsinAt(text, j + 1)
                     /\ \A k \in (i + Len(dom))..(j - 1) : text[k] # "\n" }
      starts == { i \in 1..Len(text) : LitAt(text, i, dom) /\ Ends(i) # {} }
  IN  IF starts = {} THEN None
      ELSE LET i == CHOOSE h \in starts : \A g \in starts : h <= g
               j == CHOOSE h \in Ends(i) : \A g \in Ends(i) : h >= g
           IN  SubSeq(text, j + 1, j + 10)

\* The pattern list of find_asin, in the order the code tries it.
Patterns(text) ==
  << SearchLitAsin(text, (* /dp/ *) <<"/","d","p","/">>),
     SearchLitAsin(text, (* /gp/product/ *) <<"/","g","p","/","p","r","o","d","u","c","t","/">>),
     SearchGeneric(text),
     SearchLitAsin(text, (* %2Fdp%2F *) <<"%","2","F","d","p","%","2","F">>) >>

\* find_asin(text): the group of the first pattern that matches, or None.
find_asin(text) ==
  IF text = None \/ text = <<>> THEN None
  ELSE LET ms   == Patterns(text)
           hits == { p \in DOMAIN ms : ms[p] # None }
       IN  IF hits = {} THEN None
           ELSE ms[CHOOSE p \in hits : \A q \in hits : p <= q]

\* extract_image(entry): re.search(r'<img[^>]+src="([^">]+)"', content).
\* The leftmost "<img" from which a match exists; the greedy [^>]+ takes the
\* last src=" it can reach without crossing ">", and the group is the
\* maximal run of characters other than " and >, which must be non-empty
\* and closed by a double quote.
ImgGroupEnd(text, p) ==
  \* text[p] is the first character of the group; the position of the
  \* closing quote, or 0 when the group cannot match there.
  LET stops == { q \in p..Len(text) : text[q] \in {"\"", ">"} }
  IN  IF stops = {} THEN 0
      ELSE LET q == CHOOSE h \in stops : \A g \in stops : h <= g
           IN  IF q > p /\ text[q] = "\"" THEN q ELSE 0

SearchImg(text) ==
  LET tag == (* <img *) <<"<","i","m","g">>
      src == (* src=\" *) <<"s","r","c","=","\"">>
      Srcs(i) == { p \in (i + Len(tag) + 1)..Len(text) :
                     /\ LitAt(text, p, src)
                     /\ \A k \in (i + Len(tag))..(p - 1) : text[k] # ">"
                     /\ ImgGroupEnd(text, p + Len(src)) # 0 }
      starts == { i \in 1..Len(text) : LitAt(text, i, tag) /\ Srcs(i) # {} }
  IN  IF starts = {} THEN None
      ELSE LET i == CHOOSE h \in starts : \A g \in starts : h <= g
               p == CHOOSE h \in Srcs(i) : \A g \in Srcs(i) : h >= g
           IN  SubSeq(text, p + Len(src), ImgGroupEnd(text, p + Len(src)) - 1)

\* entry.get(key, ''): a feed entry is a function on the keys it carries.
EntryGet(entry, key) == IF key \in DOMAIN entry THEN entry[key] ELSE <<>>

extract_image(entry) ==
  SearchImg(EntryGet(entry, "summary") \o EntryGet(entry, "content"))

\* The stoplist of create_amazon_search_link.
junk ==
  { (* sale *) <<"s","a","l","e">>, (* deal *) <<"d","e","a","l">>, (* price *) <<"p","r","i","c","e">>, (* drop *) <<"d","r","o","p">>, <<"o","f","f">>, (* coupon *) <<"c","o","u","p","o","n">>, (* amazon *) <<"a","m","a","z","o","n">>,
    <<"a","t">>, <<"f","o","r">>, (* only *) <<"o","n","l","y">>, <<"$">>, (* lowest *) <<"l","o","w","e","s","t">> }

\* A filter that forgets the isdigit() test.
KeepWordKeepsNumerals(w) == w \notin junk

\* w not in junk and not w.isdigit()
KeepWord(w) == w \notin junk /\ ~IsDigit(w)

\* clean_words[:5] of create_amazon_search_link.
SearchTokens(title) == Prefix(SelectSeq(Split(Lower(title)), KeepWord), 5)

SearchQuery(title) == JoinSpace(SearchTokens(title))

create_amazon_search_link(title) ==
  (* https://www.amazon.com/s?k= *) <<"h","t","t","p","s",":","/","/","w","w","w",".","a","m","a","z","o","n",".","c","o","m","/","s","?","k","=">> \o Quote(SearchQuery(title))
    \o (* &tag= *) <<"&","t","a","g","=">> \o AMAZON_TAG

\* f"https://www.amazon.com/dp/{asin}?tag={AMAZON_TAG}"
AsinLink(asin) ==
  (* https://www.amazon.com/dp/ *) <<"h","t","t","p","s",":","/","/","w","w","w",".","a","m","a","z","o","n",".","c","o","m","/","d","p","/">> \o asin \o (* ?tag= *) <<"?","t","a","g","=">> \o AMAZON_TAG

\* -------------------------------------------------------------------- bounds

\* The largest number of configured sources of a run.
MaxSources == 3

\* ----------------------------------------------------------------- constants

\* feed.entries[:6]
EntriesPerSource == 6

\* list(unique)[:15]
MaxDeals == 15

\* deal['title'][:50]
HeadlineLen == 50

\* deal['id'][-5:]
CardIdLen == 5

\* -------------------------------------------------------------------- inputs

\* A feed entry is a function on the keys it carries (title, link, summary);
\* reading entry.title or entry.link of an entry without it raises.
FeedA ==
  << [ title   |-> (* Amazing Deal: 50% off Sony Headphones Today Only *) <<"A","m","a","z","i","n","g"," ","D","e","a","l",":"," ","5","0","%"," ","o","f","f"," ","S","o","n","y"," ","H","e","a","d","p","h","o","n","e","s"," ","T","o","d","a","y"," ","O","n","l","y">>,
       link    |-> (* https://deals.example.com/p/101 *) <<"h","t","t","p","s",":","/","/","d","e","a","l","s",".","e","x","a","m","p","l","e",".","c","o","m","/","p","/","1","0","1">>,
       summary |-> (* Great sound. *) <<"G","r","e","a","t"," ","s","o","u","n","d",".">> ],
     [ title   |-> (* Echo Dot 5th Gen *) <<"E","c","h","o"," ","D","o","t"," ","5","t","h"," ","G","e","n">>,
       link    |-> (* https://www.amazon.com/dp/B09B8V1LZ3 *) <<"h","t","t","p","s",":","/","/","w","w","w",".","a","m","a","z","o","n",".","c","o","m","/","d","p","/","B","0","9","B","8","V","1","L","Z","3">>,
       summary |-> (* <img src=\"https://img.example.com/echo.jpg\"> *) <<"<","i","m","g"," ","s","r","c","=","\"","h","t","t","p","s",":","/","/","i","m","g",".","e","x","a","m","p","l","e",".","c","o","m","/","e","c","h","o",".","j","p","g","\"",">">> ],
     [ title   |-> (* Anker Charger *) <<"A","n","k","e","r"," ","C","h","a","r","g","e","r">>,
       link    |-> (* https://www.example.com/gp/product/B08N5WRWNW/ref=x *) <<"h","t","t","p","s",":","/","/","w","w","w",".","e","x","a","m","p","l","e",".","c","o","m","/","g","p","/","p","r","o","d","u","c","t","/","B","0","8","N","5","W","R","W","N","W","/","r","e","f","=","x">> ],
     [ title   |-> (* Kindle Paperwhite *) <<"K","i","n","d","l","e"," ","P","a","p","e","r","w","h","i","t","e">>,
       link    |-> (* https://go.example.com/?u=https%3A%2F%2Fwww.amazon.com%2Fdp%2FB07FZ8S74R *) <<"h","t","t","p","s",":","/","/","g","o",".","e","x","a","m","p","l","e",".","c","o","m","/","?","u","=","h","t","t","p","s","%","3","A","%","2","F","%","2","F","w","w","w",".","a","m","a","z","o","n",".","c","o","m","%","2","F","d","p","%","2","F","B","0","7","F","Z","8","S","7","4","R">>,
       summary |-> <<>> ],
     [ title   |-> (* Sony WH-1000XM4 *) <<"S","o","n","y"," ","W","H","-","1","0","0","0","X","M","4">>,
       link    |-> (* https://go.example.com/?u=%2Fdp%2FB0863TXGM3 *) <<"h","t","t","p","s",":","/","/","g","o",".","e","x","a","m","p","l","e",".","c","o","m","/","?","u","=","%","2","F","d","p","%","2","F","B","0","8","6","3","T","X","G","M","3">>,
       summary |-> (* More at <a href=\"https://www.amazon.com/stores/SONYSTORE1\">Sony</a> *) <<"M","o","r","e"," ","a","t"," ","<","a"," ","h","r","e","f","=","\"","h","t","t","p","s",":","/","/","w","w","w",".","a","m","a","z","o","n",".","c","o","m","/","s","t","o","r","e","s","/","S","O","N","Y","S","T","O","R","E","1","\"",">","S","o","n","y","<","/","a",">">> ],
     [ title   |-> (* Save&tag=evil-20 now *) <<"S","a","v","e","&","t","a","g","=","e","v","i","l","-","2","0"," ","n","o","w">>,
       link    |-> (* https://deals.example.com/p/106 *) <<"h","t","t","p","s",":","/","/","d","e","a","l","s",".","e","x","a","m","p","l","e",".","c","o","m","/","p","/","1","0","6">> ],
     [ title   |-> (* Seventh Entry *) <<"S","e","v","e","n","t","h"," ","E","n","t","r","y">>,
       link    |-> (* https://deals.example.com/p/107 *) <<"h","t","t","p","s",":","/","/","d","e","a","l","s",".","e","x","a","m","p","l","e",".","c","o","m","/","p","/","1","0","7">> ] >>

FeedB ==
  << [ title   |-> (* Amazon Echo Dot Smart Speaker *) <<"A","m","a","z","o","n"," ","E","c","h","o"," ","D","o","t"," ","S","m","a","r","t"," ","S","p","e","a","k","e","r">>,
       link    |-> (* https://www.amazon.com/Echo/dp/B09B8V1LZ3/ref=y *) <<"h","t","t","p","s",":","/","/","w","w","w",".","a","m","a","z","o","n",".","c","o","m","/","E","c","h","o","/","d","p","/","B","0","9","B","8","V","1","L","Z","3","/","r","e","f","=","y">> ],
     [ title   |-> (* REFURBISHED Dell Monitor *) <<"R","E","F","U","R","B","I","S","H","E","D"," ","D","e","l","l"," ","M","o","n","i","t","o","r">>,
       link    |-> (* https://b.example.com/2 *) <<"h","t","t","p","s",":","/","/","b",".","e","x","a","m","p","l","e",".","c","o","m","/","2">> ],
     [ title   |-> (* Logitech Mouse *) <<"L","o","g","i","t","e","c","h"," ","M","o","u","s","e">>,
       link    |-> (* https://b.example.com/3 *) <<"h","t","t","p","s",":","/","/","b",".","e","x","a","m","p","l","e",".","c","o","m","/","3">> ],
     [ title   |-> (* logitech mouse deal *) <<"l","o","g","i","t","e","c","h"," ","m","o","u","s","e"," ","d","e","a","l">>,
       link    |-> (* https://b.example.com/4 *) <<"h","t","t","p","s",":","/","/","b",".","e","x","a","m","p","l","e",".","c","o","m","/","4">> ],
     [ title   |-> (* C# Programming Book 2024 *) <<"C","#"," ","P","r","o","g","r","a","m","m","i","n","g"," ","B","o","o","k"," ","2","0","2","4">>,
       link    |-> (* https://b.example.com/5 *) <<"h","t","t","p","s",":","/","/","b",".","e","x","a","m","p","l","e",".","c","o","m","/","5">> ],
     [ title   |-> (* USB Hub for only $ 9 *) <<"U","S","B"," ","H","u","b"," ","f","o","r"," ","o","n","l","y"," ","$"," ","9">>,
       link    |-> (* https://b.example.com/6 *) <<"h","t","t","p","s",":","/","/","b",".","e","x","a","m","p","l","e",".","c","o","m","/","6">> ] >>

FeedC ==
  << [ title   |-> (* Instant Pot Duo 7-in-1 Electric Pressure Cooker, Slow Cooker *) <<"I","n","s","t","a","n","t"," ","P","o","t"," ","D","u","o"," ","7","-","i","n","-","1"," ","E","l","e","c","t","r","i","c"," ","P","r","e","s","s","u","r","e"," ","C","o","o","k","e","r",","," ","S","l","o","w"," ","C","o","o","k","e","r">>,
       link    |-> (* https://c.example.com/1 *) <<"h","t","t","p","s",":","/","/","c",".","e","x","a","m","p","l","e",".","c","o","m","/","1">> ],
     [ title   |-> (* Fire TV Stick *) <<"F","i","r","e"," ","T","V"," ","S","t","i","c","k">>,
       link    |-> (* https://c.example.com/2 *) <<"h","t","t","p","s",":","/","/","c",".","e","x","a","m","p","l","e",".","c","o","m","/","2">>,
       summary |-> (* Buy:\nhttps://www.amazon.com/gp/aw/d/B08C1W5N87\n *) <<"B","u","y",":","\n","h","t","t","p","s",":","/","/","w","w","w",".","a","m","a","z","o","n",".","c","o","m","/","g","p","/","a","w","/","d","/","B","0","8","C","1","W","5","N","8","7","\n">> ],
     [ title   |-> (* Bose Speaker *) <<"B","o","s","e"," ","S","p","e","a","k","e","r">>,
       link    |-> (* https://c.example.com/3 *) <<"h","t","t","p","s",":","/","/","c",".","e","x","a","m","p","l","e",".","c","o","m","/","3">>,
       summary |-> (* <img alt=\"x\" src=\"https://img.example.com/bose.png\"/> *) <<"<","i","m","g"," ","a","l","t","=","\"","x","\""," ","s","r","c","=","\"","h","t","t","p","s",":","/","/","i","m","g",".","e","x","a","m","p","l","e",".","c","o","m","/","b","o","s","e",".","p","n","g","\"","/",">">> ],
     [ title   |-> (* Garmin Watch *) <<"G","a","r","m","i","n"," ","W","a","t","c","h">>,
       link    |-> (* https://c.example.com/4 *) <<"h","t","t","p","s",":","/","/","c",".","e","x","a","m","p","l","e",".","c","o","m","/","4">> ],
     [ title   |-> (* LEGO Set 10281 *) <<"L","E","G","O"," ","S","e","t"," ","1","0","2","8","1">>,
       link    |-> (* https://c.example.com/5 *) <<"h","t","t","p","s",":","/","/","c",".","e","x","a","m","p","l","e",".","c","o","m","/","5">> ],
     [ title   |-> (* Yeti Mug *) <<"Y","e","t","i"," ","M","u","g">>,
       link    |-> (* https://c.example.com/6 *) <<"h","t","t","p","s",":","/","/","c",".","e","x","a","m","p","l","e",".","c","o","m","/","6">> ] >>

FeedD ==
  << [ title   |-> (* Echo Dot 5th Gen *) <<"E","c","h","o"," ","D","o","t"," ","5","t","h"," ","G","e","n">>,
       link    |-> (* https://d.example.com/1 *) <<"h","t","t","p","s",":","/","/","d",".","e","x","a","m","p","l","e",".","c","o","m","/","1">> ],
     [ title   |-> (* Dyson Vacuum *) <<"D","y","s","o","n"," ","V","a","c","u","u","m">>,
       link    |-> (* https://www.amazon.com/dp/B01IENFJ14 *) <<"h","t","t","p","s",":","/","/","w","w","w",".","a","m","a","z","o","n",".","c","o","m","/","d","p","/","B","0","1","I","E","N","F","J","1","4">> ],
     [ link    |-> (* https://d.example.com/3 *) <<"h","t","t","p","s",":","/","/","d",".","e","x","a","m","p","l","e",".","c","o","m","/","3">> ],
     [ title   |-> (* Never Reached *) <<"N","e","v","e","r"," ","R","e","a","c","h","e","d">>,
       link    |-> (* https://d.example.com/4 *) <<"h","t","t","p","s",":","/","/","d",".","e","x","a","m","p","l","e",".","c","o","m","/","4">> ] >>

\* What requests.get + feedparser.parse give for one source: an exception
\* (timeout, DNS, HTTP library error) or a parsed feed.
FeedResponses ==
  { [ok |-> FALSE, entries |-> <<>>] }
    \cup { [ok |-> TRUE, entries |-> f] : f \in {FeedA, FeedB, FeedC, FeedD} }

\* config['sources'][i]
Source(i) ==
  [ name |-> (* feed *) <<"f","e","e","d">> \o <<DigitChars[i + 1]>>,
    url  |-> (* https://feeds.example.com/ *) <<"h","t","t","p","s",":","/","/","f","e","e","d","s",".","e","x","a","m","p","l","e",".","c","o","m","/">> \o <<DigitChars[i + 1]>> ]

\* config.yaml as loaded by load_config.  The code reads config['sources']
\* only; max_deals and exclude_keywords are the keys a configuration file
\* carries for the maximum number of deals and the exclusion keyword list.
Configs ==
  { [ sources          |-> [i \in 1..n |-> Source(i)],
      max_deals        |-> o.max_deals,
      exclude_keywords |-> o.exclude_keywords ] :
      n \in 0..MaxSources,
      o \in { [max_deals |-> 15, exclude_keywords |-> <<>>],
              [max_deals |-> 10, exclude_keywords |-> << (* refurbished *) <<"r","e","f","u","r","b","i","s","h","e","d">> >>] } }

\* The JSON objects the text-generation service may answer with.
FullData ==
  [ headline       |-> (* Top Pick *) <<"T","o","p"," ","P","i","c","k">>,
    why_good       |-> (* Great value right now *) <<"G","r","e","a","t"," ","v","a","l","u","e"," ","r","i","g","h","t"," ","n","o","w">>,
    discount_guess |-> <<"5","0","%">>,
    category       |-> (* Audio *) <<"A","u","d","i","o">>,
    social_caption |-> (* Hot #deal *) <<"H","o","t"," ","#","d","e","a","l">> ]

Without(data, key) == [k \in DOMAIN data \ {key} |-> data[k]]

\* An answer that also carries keys the deal already has.
OverridingData ==
  [ headline       |-> (* Top Pick *) <<"T","o","p"," ","P","i","c","k">>,
    why_good       |-> (* Great value right now *) <<"G","r","e","a","t"," ","v","a","l","u","e"," ","r","i","g","h","t"," ","n","o","w">>,
    discount_guess |-> <<"5","0","%">>,
    category       |-> (* Audio *) <<"A","u","d","i","o">>,
    social_caption |-> (* Hot #deal *) <<"H","o","t"," ","#","d","e","a","l">>,
    title          |-> (* Changed *) <<"C","h","a","n","g","e","d">>,
    link           |-> (* https://elsewhere.example.com/x *) <<"h","t","t","p","s",":","/","/","e","l","s","e","w","h","e","r","e",".","e","x","a","m","p","l","e",".","c","o","m","/","x">> ]

\* One call of the service and of the image tools: the chat completion
\* raises (or its content is not JSON), or json.loads gives data; io_ok says
\* whether downloading the picture and drawing the card succeed; card_dirs
\* says whether the working directory already holds the sub-directories of
\* assets/ that a card file name may lie in (a fresh working directory holds
\* none: os.makedirs creates assets/ only).
Raises  == [api |-> "raise", data |-> <<>>, io_ok |-> TRUE, card_dirs |-> FALSE]
Answer(data, io_ok, card_dirs) ==
  [api |-> "ok", data |-> data, io_ok |-> io_ok, card_dirs |-> card_dirs]

ServiceCalls ==
  { Raises,
    Answer(FullData, TRUE, FALSE),
    Answer(FullData, TRUE, TRUE),
    Answer(FullData, FALSE, FALSE),
    Answer(Without(FullData, "headline"), TRUE, FALSE),
    Answer(Without(FullData, "discount_guess"), TRUE, FALSE),
    Answer(Without(FullData, "why_good"), TRUE, FALSE),
    Answer(Without(FullData, "social_caption"), TRUE, FALSE),
    Answer(Without(FullData, "category"), TRUE, TRUE),
    Answer(OverridingData, TRUE, FALSE),
    Answer(<<>>, FALSE, FALSE) }

\* The behaviour of the service over a run: call k is answered by
\* script[((k - 1) % Len(script)) + 1].
ServiceScripts ==
  { <<c>> : c \in ServiceCalls }
    \cup { <<Answer(FullData, TRUE, FALSE), Raises>>,
           <<Raises, Answer(Without(FullData, "headline"), FALSE, FALSE)>> }

\* --------------------------------------------------------------------- state

VARIABLES
  config,     \* the loaded configuration
  feeds,      \* what each configured source answers when it is fetched
  pc,         \* where the run is: fetch, select, main, enrich, site, rss, done, crashed
  si,         \* index of the source the fetch loop handles next
  responses,  \* what each source handled so far answered
  raw_deals,  \* fetch_deals: its local raw_deals, as it was when it returned
  deals,      \* raw in __main__: the list fetch_deals returned, whose dicts
              \* ai_enrich changes in place
  script,     \* how the text-generation service behaves in this run
  enriched,   \* ai_enrich: enriched
  site,       \* index.html as written by generate_site
  rss         \* feed.xml as written by generate_rss

vars == <<config, feeds, pc, si, responses, raw_deals, deals, script, enriched, site, rss>>

\* ---------------------------------------------------------------- fetch_deals

\* One entry of the loop body of fetch_deals.
DealOf(entry, source) ==
  LET blob == entry.link \o EntryGet(entry, "summary")
      asin == find_asin(blob)
  IN  [ title  |-> entry.title,
        link   |-> IF asin # None THEN AsinLink(asin)
                   ELSE create_amazon_search_link(entry.title),
        img    |-> extract_image(entry),
        source |-> source.name,
        id     |-> IF asin # None THEN asin ELSE entry.link ]

\* entry.link and entry.title raise AttributeError on an entry without them.
EntryRaises(entry) == ~({"title", "link"} \subseteq DOMAIN entry)

\* The deals appended for the entries of one feed until an entry raises.
RECURSIVE DealsOfEntries(_, _)
DealsOfEntries(entries, source) ==
  IF entries = <<>> \/ EntryRaises(Head(entries)) THEN <<>>
  ELSE <<DealOf(Head(entries), source)>> \o DealsOfEntries(Tail(entries), source)

\* The try block of one source: the deals it appends, and whether it raised.
SourceDeals(response, source) ==
  IF ~response.ok THEN <<>>
  ELSE DealsOfEntries(Prefix(response.entries, EntriesPerSource), source)

SourceRaises(response) ==
  \/ ~response.ok
  \/ \E k \in 1..Len(Prefix(response.entries, EntriesPerSource)) :
       EntryRaises(response.entries[k])

\* A loop that an exception ends: the try around the loop, not inside it.
LoopAbortsOnError(i, n, raised) == IF raised THEN n + 1 ELSE i + 1

\* except Exception inside the loop: print and go on with the next source,
\* whether or not source i of n raised.
NextSource(i, n, raised) == i + 1

\* seen/unique: the first deal of every title, in order.
RECURSIVE UniqueByTitle(_, _)
UniqueByTitle(ds, seen) ==
  IF ds = <<>> THEN <<>>
  ELSE IF Head(ds).title \in seen THEN UniqueByTitle(Tail(ds), seen)
  ELSE <<Head(ds)>> \o UniqueByTitle(Tail(ds), seen \cup {Head(ds).title})

\* list(unique)[:15]
Truncate(unique) == Prefix(unique, MaxDeals)

FetchSource ==
  /\ pc = "fetch"
  /\ si <= Len(config.sources)
  /\ LET response == feeds[si]
     IN  /\ responses' = Append(responses, response)
         /\ raw_deals' = raw_deals \o SourceDeals(response, config.sources[si])
         /\ si' = NextSource(si, Len(config.sources), SourceRaises(response))
  /\ UNCHANGED <<config, feeds, pc, deals, script, enriched, site, rss>>

\* The loop is over: deduplicate, truncate, return.
Select ==
  /\ pc = "fetch"
  /\ si > Len(config.sources)
  /\ deals' = Truncate(UniqueByTitle(raw_deals, {}))
  /\ pc' = "main"
  /\ UNCHANGED <<config, feeds, si, responses, raw_deals, script, enriched, site, rss>>

\* ------------------------------------------------------------------ ai_enrich

\* deal.get(key)
Get(deal, key) == IF key \in DOMAIN deal THEN deal[key] ELSE None

\* deal[key] = value
Put(deal, key, value) ==
  [k \in DOMAIN deal \cup {key} |-> IF k = key THEN value ELSE deal[k]]

\* deal.update(data)
Update(deal, data) ==
  [k \in DOMAIN deal \cup DOMAIN data |->
     IF k \in DOMAIN data THEN data[k] ELSE deal[k]]

\* FALLBACK_IMGS.get(category, FALLBACK_IMGS['Default'])
FallbackImg(category) ==
  IF category = (* Tech *) <<"T","e","c","h">> THEN FALLBACK_IMGS.Tech
  ELSE IF category = (* Home *) <<"H","o","m","e">> THEN FALLBACK_IMGS.Home
  ELSE IF category = (* Audio *) <<"A","u","d","i","o">> THEN FALLBACK_IMGS.Audio
  ELSE FALLBACK_IMGS.Default

\* out.save(filename, "PNG") of generate_social_card, after
\* os.makedirs("assets", exist_ok=True): the file name is
\* assets/card_<last five characters of the id>.png, so an id whose last
\* five characters hold "/" (an id that is a link) names a file in a
\* sub-directory of assets/ which the code never creates, and the save
\* raises FileNotFoundError unless that directory is already there.
SaveRaises(deal, card_dirs) ==
  /\ ~card_dirs
  /\ "/" \in Range(Suffix(deal.id, CardIdLen))

\* generate_social_card(deal).  The try block raises when the download or
\* the drawing fails, at deal['discount_guess'] / deal['headline'] of a deal
\* without them, or at the save; the handler then formats deal['headline']
\* into its message, which raises KeyError out of the function when the
\* deal has no headline, and returns None otherwise.
CardTryRaises(deal, io_ok, card_dirs) ==
  \/ ~io_ok
  \/ "discount_guess" \notin DOMAIN deal
  \/ "headline" \notin DOMAIN deal
  \/ SaveRaises(deal, card_dirs)

CardRaises(deal, io_ok, card_dirs) ==
  CardTryRaises(deal, io_ok, card_dirs) /\ "headline" \notin DOMAIN deal

CardPath(deal, io_ok, card_dirs) ==
  IF CardTryRaises(deal, io_ok, card_dirs) THEN None
  ELSE (* assets/card_ *) <<"a","s","s","e","t","s","/","c","a","r","d","_">> \o Suffix(deal.id, CardIdLen) \o (* .png *) <<".","p","n","g">>

\* The except branch of ai_enrich, on the deal as it is when the exception
\* is raised.
Fallback(deal) ==
  LET headline == Prefix(deal.title, HeadlineLen)
      d1 == Put(deal, "headline", headline)
      d2 == Put(d1, "why_good", (* Check price. *) <<"C","h","e","c","k"," ","p","r","i","c","e",".">>)
      d3 == Put(d2, "discount_guess", (* DEAL *) <<"D","E","A","L">>)
      d4 == Put(d3, "social_caption",
                (* Check out this deal on  *) <<"C","h","e","c","k"," ","o","u","t"," ","t","h","i","s"," ","d","e","a","l"," ","o","n"," ">> \o headline \o (* ! #TechDeals *) <<"!"," ","#","T","e","c","h","D","e","a","l","s">>)
  IN  IF ~Truthy(Get(d4, "img")) THEN Put(d4, "img", FALLBACK_IMGS.Default) ELSE d4

\* One iteration of the loop of ai_enrich: the deal appended to enriched.
EnrichOne(deal, call) ==
  IF call.api = "raise" THEN Fallback(deal)
  ELSE LET d1 == Update(deal, call.data)
           d2 == IF ~Truthy(d1.img)
                 THEN Put(d1, "img", FallbackImg(Get(d1, "category")))
                 ELSE d1
       IN  IF CardRaises(d2, call.io_ok, call.card_dirs) THEN Fallback(d2)
           ELSE Put(d2, "social_image_path",
                    CardPath(d2, call.io_ok, call.card_dirs))

\* The answer of the service to its k-th call.
CallOf(scr, k) == scr[((k - 1) % Len(scr)) + 1]

\* -------------------------------------------------- generate_site, generate_rss

SiteKeys == {"discount_guess", "img", "headline", "why_good", "link"}
RssKeys  == {"headline", "discount_guess", "social_caption", "link", "img"}

\* A page builder that also fails on an empty list.
SiteRaisesOnEmpty(ds) ==
  ds = <<>> \/ \E i \in DOMAIN ds : ~(SiteKeys \subseteq DOMAIN ds[i])

\* deal[key] in the card template raises KeyError on a deal without the key.
SiteRaises(ds) == \E i \in DOMAIN ds : ~(SiteKeys \subseteq DOMAIN ds[i])

RssRaises(ds) == \E i \in DOMAIN ds : ~(RssKeys \subseteq DOMAIN ds[i])

\* index.html: the "AI is scanning ..." notice when there are no deals, and
\* one card per deal.
SitePage(ds) ==
  [ written |-> TRUE,
    notice  |-> ds = <<>>,
    cards   |-> [i \in DOMAIN ds |-> [k \in SiteKeys |-> ds[i][k]]] ]

\* feed.xml: one item per deal.
RssFeed(ds) ==
  [ written |-> TRUE,
    items   |-> [i \in DOMAIN ds |-> [k \in RssKeys |-> ds[i][k]]] ]

\* ------------------------------------------------------------------- __main__

\* if raw: ai_enrich, generate_site, generate_rss; else: generate_site([]).
Main ==
  /\ pc = "main"
  /\ IF deals # <<>>
     THEN /\ pc' = "enrich"
          /\ script' \in ServiceScripts
     ELSE /\ pc' = "site"
          /\ UNCHANGED script
  /\ UNCHANGED <<config, feeds, si, responses, raw_deals, deals, enriched, site, rss>>

\* One iteration of the loop of ai_enrich.  The loop variable is the dict
\* object held by the list it was given: deal.update and the assignments
\* change that object in place, and the same object is appended to enriched.
EnrichDeal ==
  /\ pc = "enrich"
  /\ Len(enriched) < Len(deals)
  /\ LET k == Len(enriched) + 1
         d == EnrichOne(deals[k], CallOf(script, k))
     IN  /\ deals' = [deals EXCEPT ![k] = d]
         /\ enriched' = Append(enriched, d)
  /\ UNCHANGED <<config, feeds, pc, si, responses, raw_deals, script, site, rss>>

EnrichReturn ==
  /\ pc = "enrich"
  /\ Len(enriched) = Len(deals)
  /\ pc' = "site"
  /\ UNCHANGED <<config, feeds, si, responses, raw_deals, deals, script, enriched, site, rss>>

GenerateSite ==
  /\ pc = "site"
  /\ IF SiteRaises(enriched)
     THEN /\ pc' = "crashed"
          /\ UNCHANGED site
     ELSE /\ site' = SitePage(enriched)
          /\ pc' = IF deals # <<>> THEN "rss" ELSE "done"
  /\ UNCHANGED <<config, feeds, si, responses, raw_deals, deals, script, enriched, rss>>

GenerateRss ==
  /\ pc = "rss"
  /\ IF RssRaises(enriched)
     THEN /\ pc' = "crashed"
          /\ UNCHANGED rss
     ELSE /\ rss' = RssFeed(enriched)
          /\ pc' = "done"
  /\ UNCHANGED <<config, feeds, si, responses, raw_deals, deals, script, enriched, site>>

\* ------------------------------------------------------------- specification

Init ==
  /\ config \in Configs
  /\ feeds \in [DOMAIN config.sources -> FeedResponses]
  /\ pc = "fetch"
  /\ si = 1
  /\ responses = <<>>
  /\ raw_deals = <<>>
  /\ deals = <<>>
  /\ script = <<Raises>>
  /\ enriched = <<>>
  /\ site = [written |-> FALSE, notice |-> FALSE, cards |-> <<>>]
  /\ rss = [written |-> FALSE, items |-> <<>>]

Next ==
  \/ FetchSource
  \/ Select
  \/ Main
  \/ EnrichDeal
  \/ EnrichReturn
  \/ GenerateSite
  \/ GenerateRss

Spec == Init /\ [][Next]_vars

\* The runs in which at most one source delivers a feed: the runs without
\* deals, and the runs of one feed next to them.
InitQuiet ==
  /\ Init
  /\ Cardinality({ i \in DOMAIN feeds : feeds[i].ok }) <= 1

\* The script is sequential and runs to its end: once the fetch loop is over,
\* every step that can be taken is taken.
FairSpec ==
  /\ InitQuiet
  /\ [][Next]_vars
  /\ WF_vars(Select)
  /\ WF_vars(Main)
  /\ WF_vars(EnrichDeal)
  /\ WF_vars(EnrichReturn)
  /\ WF_vars(GenerateSite)
  /\ WF_vars(GenerateRss)

\* ------------------------------------------------------------------- claims

\* sub occurs in s.
Contains(s, sub) == \E i \in 1..(Len(s) - Len(sub) + 1) : LitAt(s, i, sub)

\* Positions of the character c in s.
Positions(s, c) == { i \in DOMAIN s : s[i] = c }

Min(S) == CHOOSE x \in S : \A y \in S : x <= y

\* The query string of a URL: from its first "?" to its fragment.
UrlQuery(url) ==
  LET hashes == Positions(url, "#")
      body   == IF hashes = {} THEN url ELSE SubSeq(url, 1, Min(hashes) - 1)
      marks  == Positions(body, "?")
  IN  IF marks = {} THEN <<>> ELSE SubSeq(body, Min(marks) + 1, Len(body))

\* How many parameters of the URL's query string are named "tag".
TagCount(url) ==
  LET q == UrlQuery(url)
  IN  Cardinality({ i \in DOMAIN q :
                      /\ i = 1 \/ q[i - 1] = "&"
                      /\ LitAt(q, i, (* tag= *) <<"t","a","g","=">>) })

\* The claims about the list fetch_deals returns are stated of deals at
\* pc = "main", when fetch_deals has returned and ai_enrich has not yet
\* touched the dicts of the list.

\* The deal carries a product id: its link is the product link of its id.
HasProductId(d) == d.link = AsinLink(d.id)

\* The dedupe key of the specification: the product id when one was
\* extracted, else the resolved link.
DedupeKey(d) == IF HasProductId(d) THEN d.id ELSE d.link

\* C1: no two deals returned by fetch_deals share a dedupe key (product id
\* when extracted, else resolved link); of two entries resolving to the same
\* product id only the first is returned.
C1_UniqueDedupeKey ==
  pc = "main" =>
    \A i, j \in DOMAIN deals :
      i < j => DedupeKey(deals[i]) # DedupeKey(deals[j])

\* C2: the number of deals returned by fetch_deals never exceeds the maximum
\* number of deals per run that the configuration gives.
C2_AtMostConfiguredMaximum ==
  pc # "fetch" => Len(deals) <= config.max_deals

\* C3: a deal whose title contains, in any letter case, a keyword of the
\* configured exclusion list is absent from the list fetch_deals returns.
C3_ExcludedTitlesAbsent ==
  pc = "main" =>
    \A i \in DOMAIN deals : \A k \in DOMAIN config.exclude_keywords :
      ~Contains(Lower(deals[i].title), Lower(config.exclude_keywords[k]))

\* C4: a deal whose text-generation call failed is appended with headline,
\* why_good and category all present.
C4_FallbackFieldsComplete ==
  \A k \in DOMAIN enriched :
    CallOf(script, k).api = "raise" =>
      {"headline", "why_good", "category"} \subseteq DOMAIN enriched[k]

\* C5: every deal ai_enrich returns has every field generate_site and
\* generate_rss read, whatever fields the service's answer lacks, and the
\* run does not crash at render time.
C5_ValidatedBeforeMerge ==
  /\ pc # "crashed"
  /\ \A k \in DOMAIN enriched :
       (SiteKeys \cup RssKeys) \subseteq DOMAIN enriched[k]

ScenarioTitle == (* Amazing Deal: 50% off Sony Headphones Today Only *) <<"A","m","a","z","i","n","g"," ","D","e","a","l",":"," ","5","0","%"," ","o","f","f"," ","S","o","n","y"," ","H","e","a","d","p","h","o","n","e","s"," ","T","o","d","a","y"," ","O","n","l","y">>

\* C6 as stated: the search link of the scenario title is built from the
\* tokens amazing, sony, headphones, today, only.
C6_ScenarioTokensAsStated ==
  \A i \in DOMAIN raw_deals :
    raw_deals[i].title = ScenarioTitle =>
      raw_deals[i].link =
        (* https://www.amazon.com/s?k=amazing%20sony%20headphones%20today%20only&tag=circuitbrea0c-20 *) <<"h","t","t","p","s",":","/","/","w","w","w",".","a","m","a","z","o","n",".","c","o","m","/","s","?","k","=","a","m","a","z","i","n","g","%","2","0","s","o","n","y","%","2","0","h","e","a","d","p","h","o","n","e","s","%","2","0","t","o","d","a","y","%","2","0","o","n","l","y","&","t","a","g","=","c","i","r","c","u","i","t","b","r","e","a","0","c","-","2","0">>

\* C6 as amended: the query of a search link is made of at most 5 tokens,
\* each a whitespace-delimited word of the lowercased title that is no
\* stoplist word and no pure numeral, taken in title order from the first
\* such word on; for the scenario title the tokens are amazing, deal:, 50%,
\* sony, headphones ("deal:" and "50%" are neither stoplist words nor
\* numerals, "off" is dropped, and "today", "only" fall behind the fifth).
\* Stated of raw_deals while fetch_deals builds it and when it returns; no
\* later step writes raw_deals.
C6_SearchLinkTokens ==
  pc \in {"fetch", "main"} =>
  \A i \in DOMAIN raw_deals :
    LET d     == raw_deals[i]
        words == Split(Lower(d.title))
        toks  == SearchTokens(d.title)
    IN  ~HasProductId(d) =>
          /\ Len(toks) <= 5
          /\ \A t \in DOMAIN toks :
               /\ toks[t] \notin junk
               /\ ~IsDigit(toks[t])
               /\ \E w \in DOMAIN words :
                    /\ words[w] = toks[t]
                    \* every earlier word is an earlier token or is dropped
                    /\ Cardinality({ v \in 1..(w - 1) :
                                       words[v] \notin junk /\ ~IsDigit(words[v]) }) = t - 1
          /\ (Len(toks) < 5 =>
                Cardinality({ v \in DOMAIN words :
                                words[v] \notin junk /\ ~IsDigit(words[v]) }) = Len(toks))
          /\ d.link = (* https://www.amazon.com/s?k= *) <<"h","t","t","p","s",":","/","/","w","w","w",".","a","m","a","z","o","n",".","c","o","m","/","s","?","k","=">> \o Quote(JoinSpace(toks))
                        \o (* &tag= *) <<"&","t","a","g","=">> \o AMAZON_TAG
          /\ (d.title = ScenarioTitle =>
                /\ toks = << (* amazing *) <<"a","m","a","z","i","n","g">>, (* deal: *) <<"d","e","a","l",":">>, <<"5","0","%">>, (* sony *) <<"s","o","n","y">>, (* headphones *) <<"h","e","a","d","p","h","o","n","e","s">> >>
                /\ d.link =
                     (* https://www.amazon.com/s?k=amazing%20deal%3A%2050%25%20sony%20headphones&tag=circuitbrea0c-20 *) <<"h","t","t","p","s",":","/","/","w","w","w",".","a","m","a","z","o","n",".","c","o","m","/","s","?","k","=","a","m","a","z","i","n","g","%","2","0","d","e","a","l","%","3","A","%","2","0","5","0","%","2","5","%","2","0","s","o","n","y","%","2","0","h","e","a","d","p","h","o","n","e","s","&","t","a","g","=","c","i","r","c","u","i","t","b","r","e","a","0","c","-","2","0">>)

\* C6 witness: the scenario title went through the search-link fallback, and
\* so did a title with a numeral and one with stoplist words.
C6_Witness ==
  /\ pc = "main"
  /\ \E i \in DOMAIN deals :
       deals[i].title = ScenarioTitle /\ ~HasProductId(deals[i])
  /\ \E i \in DOMAIN deals :
       /\ ~HasProductId(deals[i])
       /\ \E w \in Range(Split(Lower(deals[i].title))) : IsDigit(w)
  /\ \E i \in DOMAIN deals :
       /\ ~HasProductId(deals[i])
       /\ \E w \in Range(Split(Lower(deals[i].title))) : w \in junk

\* The ids the specific product-path patterns capture in a text.
SpecificIds(text) ==
  { SearchLitAsin(text, (* /dp/ *) <<"/","d","p","/">>),
    SearchLitAsin(text, (* /gp/product/ *) <<"/","g","p","/","p","r","o","d","u","c","t","/">>),
    SearchLitAsin(text, (* %2Fdp%2F *) <<"%","2","F","d","p","%","2","F">>) } \ {None}

\* C7: for a text that contains a specific product-path pattern (/dp/<id>,
\* /gp/product/<id>, %2Fdp%2F<id>), find_asin returns an id captured by a
\* specific pattern, whatever else the text holds.
C7_SpecificPatternWins ==
  \A i \in DOMAIN responses :
    \A k \in DOMAIN responses[i].entries :
      LET entry == responses[i].entries[k]
          blob  == entry.link \o EntryGet(entry, "summary")
      IN  (~EntryRaises(entry) /\ SpecificIds(blob) # {}) =>
            find_asin(blob) \in SpecificIds(blob)

\* C8: the link of every deal fetch_deals builds and of every deal it
\* returns, product link or search link, carries the query parameter tag
\* exactly once.
C8_TagExactlyOnce ==
  pc \in {"fetch", "main"} =>
    /\ \A i \in DOMAIN raw_deals : TagCount(raw_deals[i].link) = 1
    /\ \A i \in DOMAIN deals : TagCount(deals[i].link) = 1

\* C8 witness: a product link and the search link of a title that itself
\* holds "&tag=" were both built.
C8_Witness ==
  /\ pc = "main"
  /\ \E i \in DOMAIN deals : HasProductId(deals[i])
  /\ \E i \in DOMAIN deals :
       ~HasProductId(deals[i]) /\ Contains(deals[i].title, (* &tag= *) <<"&","t","a","g","=">>)

\* The titles of the deals of raw_deals that come from source i.
TitlesFrom(i) ==
  LET FromI(d) == d.source = Source(i).name
      ds == SelectSeq(raw_deals, FromI)
  IN  [k \in DOMAIN ds |-> ds[k].title]

\* C9: a source whose fetch or parse raises is skipped and every other
\* source is still handled, in configuration order: every source handled so
\* far has answered, the deals of every source that did not raise are in
\* raw_deals, and the loop ends only after the last source.
C9_FailedSourceSkipped ==
  /\ Len(responses) = si - 1
  /\ si <= Len(config.sources) + 1
  /\ pc # "fetch" => Len(responses) = Len(config.sources)
  /\ pc \in {"fetch", "main"} =>
       /\ \A i \in DOMAIN responses :
            ~SourceRaises(responses[i]) =>
              LET es == Prefix(responses[i].entries, EntriesPerSource)
              IN  TitlesFrom(i) = [k \in DOMAIN es |-> es[k].title]
       /\ \A a, b \in DOMAIN raw_deals :
            a < b =>
              \E i, j \in DOMAIN responses :
                /\ i <= j
                /\ raw_deals[a].source = Source(i).name
                /\ raw_deals[b].source = Source(j).name

\* C9 witness: a source raised, a later source did not, and the later
\* source's deals were returned.
C9_Witness ==
  /\ pc = "main"
  /\ \E i, j \in DOMAIN responses :
       /\ i < j
       /\ SourceRaises(responses[i])
       /\ ~SourceRaises(responses[j])
       /\ \E k \in DOMAIN deals : deals[k].source = Source(j).name

\* Every configured source was handled and none delivered a feed.
NoSourceDelivered ==
  /\ pc = "main"
  /\ \A i \in DOMAIN responses : ~responses[i].ok

\* C10: when the source list is empty or every source fails, fetch_deals
\* returns the empty list and the run goes on to generate_site, which
\* writes the "no deals" page; the run ends without enrichment.
C10_NoDealsRunCompletes ==
  NoSourceDelivered ~>
    (/\ pc = "done"
     /\ deals = <<>>
     /\ enriched = <<>>
     /\ site.written
     /\ site.notice
     /\ site.cards = <<>>)

\* C10 witness: every source of a non-empty source list failed and the run
\* ended with the notice page.
C10_Witness ==
  /\ pc = "done"
  /\ responses # <<>>
  /\ \A i \in DOMAIN responses : ~responses[i].ok
  /\ site.written /\ site.notice

====
